---- MODULE Spec2Model ----
(***************************************************************************)
(* Syncy socket server (src/server/index.ts): the in-memory room table,    *)
(* the per-connection closure state, the socket.io room subscriptions and  *)
(* one action per event handler.                                           *)
(*                                                                         *)
(* Representation:                                                         *)
(*   - connection ids, user ids, room ids and songs are positive numbers;  *)
(*     0 (Null) stands for null / undefined / the empty string, i.e. the   *)
(*     falsy values the handlers test for;                                 *)
(*   - the server clock `now` is Date.now() in milliseconds;               *)
(*   - a playback position is a number of seconds; positions REPORTED by   *)
(*     getCurrentPosition are kept in thousandths of a second so that      *)
(*     position + elapsed / 1000 stays an integer;                         *)
(*   - a Map is a function whose DOMAIN is the set of keys; the members    *)
(*     Map, whose enumeration order the code uses, is a sequence in        *)
(*     insertion order;                                                    *)
(*   - Member.username is payload only and is left out;                    *)
(*   - socket.io room names and socket ids are taken from disjoint sets.   *)
(***************************************************************************)
EXTENDS Integers, Sequences, FiniteSets, TLC

\* ---------------------------------------------------------------- bounds
NumConns == 2
NumUsers == 2
NumRooms == 1
NumSongs == 1
MaxTime  == 1
MaxPos   == 1
\* MemberSpec and HostSpec
MemberRooms  == 2
NumHostConns == 3
NumHostUsers == 3
\* ClockSpec
ClockMaxTime == 3
\* OrderSpec
OrderMaxTime == 2

MsPerSec == 1000

Null    == 0
\* a number field that the payload does not carry (undefined)
Missing == -1
Conns   == 1..NumConns
Users   == 1..NumUsers
RoomIds == 1..NumRooms
Songs   == 1..NumSongs
MemberRoomIds == 1..MemberRooms
HostConns == 1..NumHostConns
HostUsers == 1..NumHostUsers
Positions == 0..MaxPos
Statuses  == {"playing", "paused", "idle"}
\* event.status of sync_position is a client string, cast without a check
StatusInputs == Statuses \cup {"other"}
\* event.server_time of sync_position is the client's clock: behind the
\* server's or ahead of it
ClientTimes == {0, MaxTime + 1}

VARIABLES
    now,            \* Date.now()
    rooms,          \* const rooms = new Map<string, RoomState>()
    connState,      \* per connection: "open", "closed", or "down" (process ended)
    currentRoomId,  \* per connection closure variable
    currentUserId,  \* per connection closure variable
    subs,           \* socket.io adapter: the rooms each socket has joined
    ev,             \* the event of the handler run that just finished, if any
    sent,           \* the messages that handler run emitted, in order
    log             \* the console.log lines that handler run wrote, in order

vars == <<now, rooms, connState, currentRoomId, currentUserId, subs, ev, sent, log>>

\* ---------------------------------------------------------------- values
\* server_time is the timestamp the client put into the payload (0 when the
\* payload has none)
Event(type, c, room_id, user_id, position, status, song) ==
    [type |-> type, conn |-> c, room_id |-> room_id, user_id |-> user_id,
     position |-> position, status |-> status, song |-> song,
     server_time |-> 0]

NoEvent == Event("none", Null, Null, Null, 0, "", Null)

\* An emitted message: `to` is the set of connections it is delivered to,
\* `addr` the socket.io room or socket id it was addressed to.
Msg(type, addr, to, room_id, position, status, server_time, song, members) ==
    [type |-> type, addr |-> addr, to |-> to, room_id |-> room_id,
     position |-> position, status |-> status, server_time |-> server_time,
     song |-> song, members |-> members]

\* A console.log line: what it reports (kind), about which room and user,
\* and the member count it prints (0 when it prints none)
LogLine(kind, roomId, userId, n) ==
    [kind |-> kind, room_id |-> roomId, user |-> userId, n |-> n]

NewRoom(t) ==
    [members      |-> <<>>,
     socketToUser |-> <<>>,
     hostUserId   |-> Null,
     currentSong  |-> Null,
     position     |-> 0,
     status       |-> "idle",
     lastSync     |-> t]

\* Mutant of getRoom: a room object is created on every call
getRoom_fresh(rms, roomId, t) ==
    [r \in (DOMAIN rms) \cup {roomId} |->
        IF r = roomId THEN NewRoom(t) ELSE rms[r]]

\* getRoom: the table after the call (the room is created when unknown)
getRoom(rms, roomId, t) ==
    IF roomId \in DOMAIN rms THEN rms ELSE (roomId :> NewRoom(t)) @@ rms

\* Mutants of getCurrentPosition: no extrapolation; extrapolation whatever
\* the status
getCurrentPosition_stored(room, t) == room.position * MsPerSec

getCurrentPosition_always(room, t) ==
    room.position * MsPerSec + (t - room.lastSync)

\* getCurrentPosition, in thousandths of a second
getCurrentPosition(room, t) ==
    IF room.status # "playing"
    THEN room.position * MsPerSec
    ELSE room.position * MsPerSec + (t - room.lastSync)

\* Mutant of serializeMembers: only the first member is listed
serializeMembers_first(room, roomId) ==
    [i \in 1..(IF Len(room.members) > 0 THEN 1 ELSE 0) |->
        [user_id   |-> room.members[i].userId,
         room_id   |-> roomId,
         joined_at |-> room.members[i].joinedAt]]

serializeMembers(room, roomId) ==
    [i \in 1..Len(room.members) |->
        [user_id   |-> room.members[i].userId,
         room_id   |-> roomId,
         joined_at |-> room.members[i].joinedAt]]

\* ---------------------------------------------------------------- Maps
MemberIds(room) == {room.members[i].userId : i \in 1..Len(room.members)}

\* room.members.has(userId)
HasMember(room, userId) == userId \in MemberIds(room)

MemberIndex(room, userId) ==
    CHOOSE i \in 1..Len(room.members) : room.members[i].userId = userId

\* room.members.get(userId), for a key that is present
GetMember(room, userId) == room.members[MemberIndex(room, userId)]

\* Mutant of SetMember: a new key goes to the front of the enumeration order
SetMember_front(members, m) ==
    IF \E i \in 1..Len(members) : members[i].userId = m.userId
    THEN [i \in 1..Len(members) |->
            IF members[i].userId = m.userId THEN m ELSE members[i]]
    ELSE <<m>> \o members

\* room.members.set(userId, m): an existing key keeps its place, a new key
\* goes to the end of the enumeration order
SetMember(members, m) ==
    IF \E i \in 1..Len(members) : members[i].userId = m.userId
    THEN [i \in 1..Len(members) |->
            IF members[i].userId = m.userId THEN m ELSE members[i]]
    ELSE Append(members, m)

\* room.members.delete(userId)
DeleteMember(members, userId) ==
    SelectSeq(members, LAMBDA m : m.userId # userId)

\* map.delete(key)
MapDelete(map, key) == [k \in (DOMAIN map) \ {key} |-> map[k]]

\* map.set(key, value)
MapSet(map, key, value) == (key :> value) @@ map

\* ---------------------------------------------------------------- socket.io
\* Mutant of InRoom: the message goes to every socket
InRoom_all(sb, roomId) == DOMAIN sb

\* io.to(roomId): every connected socket that joined the room
InRoom(sb, roomId) == {c \in DOMAIN sb : roomId \in sb[c]}

\* io.to(socketId): the socket's own room, left when it disconnects
OwnRoom(cs, socketId) == {c \in DOMAIN cs : c = socketId /\ cs[c] = "open"}

\* ---------------------------------------------------------------- doLeave
\* The user doLeave resolves for the calling socket:
\* room.socketToUser.get(socket.id) || currentUserId
LeaveUser(room, c, curU) ==
    IF c \in DOMAIN room.socketToUser /\ room.socketToUser[c] # Null
    THEN room.socketToUser[c]
    ELSE curU

\* Mutant of Removes: the socket check is missing
Removes_any(room, c, userId) ==
    userId # Null /\ HasMember(room, userId)

\* "Only remove if this socket is the CURRENT socket for that user"
Removes(room, c, userId) ==
    /\ userId # Null
    /\ HasMember(room, userId)
    /\ GetMember(room, userId).socketId = c

\* Mutant of LeftRoom: a departure that removes a member pauses the room
LeftRoom_paused(room, c, userId) ==
    IF userId = Null THEN room
    ELSE [room EXCEPT
            !.members = IF Removes(room, c, userId)
                        THEN DeleteMember(room.members, userId)
                        ELSE room.members,
            !.socketToUser = MapDelete(room.socketToUser, c),
            !.status = IF Removes(room, c, userId) THEN "paused" ELSE room.status]

\* The room after the membership part of doLeave
LeftRoom(room, c, userId) ==
    IF userId = Null THEN room
    ELSE [room EXCEPT
            !.members = IF Removes(room, c, userId)
                        THEN DeleteMember(room.members, userId)
                        ELSE room.members,
            !.socketToUser = MapDelete(room.socketToUser, c)]

\* Mutant of Reassigns: the host is never reassigned
Reassigns_never(room, userId) == FALSE

\* "Reassign host if needed": whether doLeave runs the reassignment
Reassigns(room, userId) == room.hostUserId = userId

\* Mutant of RoomEmpty: the empty room is kept
RoomEmpty_never(room) == FALSE

\* room.members.size === 0
RoomEmpty(room) == Len(room.members) = 0

\* Mutant of FirstMember: the successor is read from an empty list
FirstMember_none(room) ==
    [userId |-> Null, socketId |-> Null, joinedAt |-> 0]

\* Mutant of FirstMember: the successor is the last member
FirstMember_last(room) ==
    IF Len(room.members) > 0
    THEN room.members[Len(room.members)]
    ELSE [userId |-> Null, socketId |-> Null, joinedAt |-> 0]

\* const newHost = allMembers[0]; room.hostUserId = newHost?.userId ?? null
\* (a member with a Null userId stands for the undefined newHost)
FirstMember(room) ==
    IF Len(room.members) > 0
    THEN room.members[1]
    ELSE [userId |-> Null, socketId |-> Null, joinedAt |-> 0]

\* Mutant of LeaveMessages: the member list is broadcast first
LeaveMessages_updateFirst(promo, update) == <<update>> \o promo

\* The emits of doLeave in program order: promoted_to_host inside the
\* reassignment block, then members_update
LeaveMessages(promo, update) == promo \o <<update>>

\* doLeave(roomId) run by socket c on the state (rms, sb, curR, curU), where
\* cs is the connection table: the state it leaves, the messages it emits
\* and the lines it logs.
doLeave(c, roomId, rms, sb, curR, curU, cs) ==
    IF roomId \notin DOMAIN rms
    THEN [rooms |-> rms, subs |-> sb, curR |-> curR, curU |-> curU,
          sent |-> <<>>, log |-> <<>>]
    ELSE
      LET room    == rms[roomId]
          userId  == LeaveUser(room, c, curU)
          left    == LeftRoom(room, c, userId)
          leftLog == IF Removes(room, c, userId)
                     THEN <<LogLine("left", roomId, userId, Len(left.members))>>
                     ELSE <<>>
          sb1     == [sb EXCEPT ![c] = @ \ {roomId}]
      IN  IF RoomEmpty(left)
          THEN [rooms |-> MapDelete(rms, roomId), subs |-> sb1,
                curR |-> curR, curU |-> curU, sent |-> <<>>,
                log |-> leftLog \o <<LogLine("deleted", roomId, Null, 0)>>]
          ELSE
            LET newHost == FirstMember(left)
                final   == IF Reassigns(left, userId)
                           THEN [left EXCEPT !.hostUserId = newHost.userId]
                           ELSE left
                promoted == Reassigns(left, userId) /\ newHost.userId # Null
                promo   == IF promoted
                           THEN <<Msg("promoted_to_host", newHost.socketId,
                                      OwnRoom(cs, newHost.socketId), roomId,
                                      0, "", 0, Null, <<>>)>>
                           ELSE <<>>
                update  == Msg("members_update", roomId, InRoom(sb1, roomId),
                               roomId, 0, "", 0, Null,
                               serializeMembers(final, roomId))
                here    == roomId = curR
            IN  [rooms |-> [rms EXCEPT ![roomId] = final],
                 subs  |-> sb1,
                 curR  |-> IF here THEN Null ELSE curR,
                 curU  |-> IF here THEN Null ELSE curU,
                 sent  |-> LeaveMessages(promo, update),
                 log   |-> leftLog \o
                           (IF promoted
                            THEN <<LogLine("new_host", roomId, newHost.userId, 0)>>
                            ELSE <<>>)]

\* The room_state snapshot sent to one socket
RoomStateMsg(c, cs, room, roomId, t) ==
    Msg("room_state", c, OwnRoom(cs, c), roomId, getCurrentPosition(room, t),
        room.status, t, room.currentSong, serializeMembers(room, roomId))

\* ---------------------------------------------------------------- handlers
\* The server is listening and every socket of CS has connected
\* (io.on('connection') ran: null closure variables, no room joined).
InitOn(CS) ==
    /\ now = 0
    /\ rooms = <<>>
    /\ connState = [c \in CS |-> "open"]
    /\ currentRoomId = [c \in CS |-> Null]
    /\ currentUserId = [c \in CS |-> Null]
    /\ subs = [c \in CS |-> {}]
    /\ ev = NoEvent
    /\ sent = <<>>
    /\ log = <<>>

Init == InitOn(Conns)

\* The event loop is between two handler runs: the packets of the last run
\* have been handed to the transport.
Idle == ev = NoEvent

\* The event loop finishes a handler run and hands its packets over.
Flush ==
    /\ ~Idle
    /\ ev' = NoEvent
    /\ sent' = <<>>
    /\ log' = <<>>
    /\ UNCHANGED <<now, rooms, connState, currentRoomId, currentUserId, subs>>

\* The server clock advances between handler runs.
Tick ==
    /\ Idle
    /\ now < MaxTime
    /\ now' = now + 1
    /\ UNCHANGED <<ev, sent, log>>
    /\ UNCHANGED <<rooms, connState, currentRoomId, currentUserId, subs>>

\* Mutant of JoinedMember: a re-join resets joinedAt
JoinedMember_reset(room, c, user_id, t) ==
    [userId |-> user_id, socketId |-> c, joinedAt |-> t]

\* The member join_room stores for user_id
JoinedMember(room, c, user_id, t) ==
    [userId   |-> user_id,
     socketId |-> c,
     joinedAt |-> IF HasMember(room, user_id)
                  THEN GetMember(room, user_id).joinedAt
                  ELSE t]

\* Mutants of JoinHost: every join takes the host over; no join sets it
JoinHost_always(room, user_id) == user_id

JoinHost_never(room, user_id) == room.hostUserId

\* "First member in room becomes host"
JoinHost(room, user_id) ==
    IF room.hostUserId = Null THEN user_id ELSE room.hostUserId

\* Mutant of LeavesFirst: the previous room is never left
LeavesFirst_never(prev, room_id) == FALSE

\* if (currentRoomId && currentRoomId !== room_id) doLeave(currentRoomId)
LeavesFirst(prev, room_id) == prev # Null /\ prev # room_id

\* Mutant of JoinDropped: only room_id is checked
JoinDropped_roomOnly(room_id, user_id) == room_id = Null

\* if (!room_id || !user_id) return
JoinDropped(room_id, user_id) == room_id = Null \/ user_id = Null

\* socket.on('join_room')
JoinRoom(c, room_id, user_id) ==
    /\ Idle
    /\ connState[c] = "open"
    /\ ev' = Event("join_room", c, room_id, user_id, 0, "", Null)
    /\ now' = now
    /\ connState' = connState
    /\ IF JoinDropped(room_id, user_id)
       THEN /\ sent' = <<>>
            /\ log' = <<>>
            /\ UNCHANGED <<rooms, currentRoomId, currentUserId, subs>>
       ELSE
         LET prev == currentRoomId[c]
             lv   == IF LeavesFirst(prev, room_id)
                     THEN doLeave(c, prev, rooms, subs, prev, currentUserId[c], connState)
                     ELSE [rooms |-> rooms, subs |-> subs, curR |-> prev,
                           curU |-> currentUserId[c], sent |-> <<>>, log |-> <<>>]
             sb1  == [lv.subs EXCEPT ![c] = @ \cup {room_id}]
             rms1 == getRoom(lv.rooms, room_id, now)
             room == rms1[room_id]
             room1 == [room EXCEPT
                         !.members = SetMember(room.members,
                                               JoinedMember(room, c, user_id, now)),
                         !.socketToUser = MapSet(room.socketToUser, c, user_id),
                         !.hostUserId = JoinHost(room, user_id)]
         IN  /\ rooms' = [rms1 EXCEPT ![room_id] = room1]
             /\ currentRoomId' = [currentRoomId EXCEPT ![c] = room_id]
             /\ currentUserId' = [currentUserId EXCEPT ![c] = user_id]
             /\ subs' = sb1
             /\ sent' = lv.sent \o
                  << Msg("members_update", room_id, InRoom(sb1, room_id), room_id,
                         0, "", 0, Null, serializeMembers(room1, room_id)),
                     RoomStateMsg(c, connState, room1, room_id, now) >>
             /\ log' = lv.log \o
                  (IF room.hostUserId = Null
                   THEN <<LogLine("host", room_id, user_id, 0)>> ELSE <<>>) \o
                  <<LogLine(IF HasMember(room, user_id) THEN "re-joined" ELSE "joined",
                            room_id, user_id, Len(room1.members))>>

\* Mutant of StateReply: the room is looked up with getRoom
StateReply_getRoom(c, cs, rms, room_id, t) ==
    <<RoomStateMsg(c, cs, getRoom(rms, room_id, t)[room_id], room_id, t)>>

\* request_state: const room = rooms.get(room_id); if (!room) return;
\* otherwise one room_state to the requester
StateReply(c, cs, rms, room_id, t) ==
    IF room_id \in DOMAIN rms
    THEN <<RoomStateMsg(c, cs, rms[room_id], room_id, t)>>
    ELSE <<>>

\* Mutant of StateLookup: request_state looks the room up with getRoom
StateLookup_getRoom(rms, room_id, t) == getRoom(rms, room_id, t)

\* rooms.get(room_id) in request_state: a lookup, the table stays as it is
StateLookup(rms, room_id, t) == rms

\* socket.on('request_state')
RequestState(c, room_id) ==
    /\ Idle
    /\ connState[c] = "open"
    /\ ev' = Event("request_state", c, room_id, Null, 0, "", Null)
    /\ rooms' = StateLookup(rooms, room_id, now)
    /\ sent' = StateReply(c, connState, rooms, room_id, now)
    /\ log' = <<>>
    /\ UNCHANGED <<now, connState, currentRoomId, currentUserId, subs>>

\* Mutants of SetPlayback: lastSync is left as it was; nothing is written
SetPlayback_noSync(rms, room_id, position, status, t) ==
    IF room_id \in DOMAIN rms
    THEN [rms EXCEPT ![room_id] =
            [@ EXCEPT !.position = position, !.status = status]]
    ELSE rms

SetPlayback_drop(rms, room_id, position, status, t) == rms

\* Mutant of SetPlayback: the current song is cleared as well
SetPlayback_stopsSong(rms, room_id, position, status, t) ==
    IF room_id \in DOMAIN rms
    THEN [rms EXCEPT ![room_id] =
            [@ EXCEPT !.position = position, !.status = status,
                      !.lastSync = t, !.currentSong = Null]]
    ELSE rms

\* Mutant of SetPlayback: the room is looked up with getRoom
SetPlayback_create(rms, room_id, position, status, t) ==
    [getRoom(rms, room_id, t) EXCEPT ![room_id] =
        [@ EXCEPT !.position = position, !.status = status, !.lastSync = t]]

\* The playback fields a transport handler writes into a known room
SetPlayback(rms, room_id, position, status, t) ==
    IF room_id \in DOMAIN rms
    THEN [rms EXCEPT ![room_id] =
            [@ EXCEPT !.position = position, !.status = status, !.lastSync = t]]
    ELSE rms

\* Mutant of Others: io.to instead of socket.to
Others_all(sb, room_id, c) == InRoom(sb, room_id)

\* socket.to(room_id): every socket of the room except the sender
Others(sb, room_id, c) == InRoom(sb, room_id) \ {c}

\* Mutant of ReceiptTime: the earlier of the client's and the server's clock
ReceiptTime_earliest(server_time, t) == IF server_time < t THEN server_time ELSE t

\* Mutant of ReceiptTime: the client's timestamp is used
ReceiptTime_client(server_time, t) == server_time

\* The time sync_position stores and relays: Date.now(), whatever
\* event.server_time is
ReceiptTime(server_time, t) == t

\* socket.on('sync_position'); the relay is { ...event, server_time: Date.now() }
SyncPosition(c, room_id, position, status, server_time) ==
    /\ Idle
    /\ connState[c] = "open"
    /\ ev' = [Event("sync_position", c, room_id, Null, position, status, Null)
                EXCEPT !.server_time = server_time]
    /\ rooms' = SetPlayback(rooms, room_id, position, status,
                            ReceiptTime(server_time, now))
    /\ sent' = <<Msg("sync_position", room_id, Others(subs, room_id, c), room_id,
                     position, status, ReceiptTime(server_time, now), Null, <<>>)>>
    /\ log' = <<>>
    /\ UNCHANGED <<now, connState, currentRoomId, currentUserId, subs>>

\* The log line of play and pause evaluates room_id.slice(0,8) and
\* position.toFixed(2): a TypeError when either field is undefined
LogThrows(room_id, position) == room_id = Null \/ position = Missing

\* A TypeError leaves a listener: nothing in the server catches it, and the
\* process ends with every connection it held
Uncaught(cs) == [c \in DOMAIN cs |-> "down"]

\* socket.on('play'): the room is written and the relay emitted before the
\* log line is built
Play(c, room_id, position) ==
    /\ Idle
    /\ connState[c] = "open"
    /\ ev' = Event("play", c, room_id, Null, position, "", Null)
    /\ rooms' = SetPlayback(rooms, room_id, position, "playing", now)
    /\ sent' = <<Msg("sync_position", room_id, Others(subs, room_id, c), room_id,
                     position, "playing", now, Null, <<>>)>>
    /\ IF LogThrows(room_id, position)
       THEN /\ log' = <<LogLine("uncaught", room_id, Null, 0)>>
            /\ connState' = Uncaught(connState)
       ELSE /\ log' = <<LogLine("play", room_id, Null, 0)>>
            /\ connState' = connState
    /\ UNCHANGED <<now, currentRoomId, currentUserId, subs>>

\* socket.on('pause')
Pause(c, room_id, position) ==
    /\ Idle
    /\ connState[c] = "open"
    /\ ev' = Event("pause", c, room_id, Null, position, "", Null)
    /\ rooms' = SetPlayback(rooms, room_id, position, "paused", now)
    /\ sent' = <<Msg("sync_position", room_id, Others(subs, room_id, c), room_id,
                     position, "paused", now, Null, <<>>)>>
    /\ IF LogThrows(room_id, position)
       THEN /\ log' = <<LogLine("uncaught", room_id, Null, 0)>>
            /\ connState' = Uncaught(connState)
       ELSE /\ log' = <<LogLine("pause", room_id, Null, 0)>>
            /\ connState' = connState
    /\ UNCHANGED <<now, currentRoomId, currentUserId, subs>>

\* Mutant of SongStatus: a null song leaves the room playing
SongStatus_playing(song) == "playing"

\* room.status = song ? 'playing' : 'idle'
SongStatus(song) == IF song # Null THEN "playing" ELSE "idle"

\* socket.on('song_change'); song = Null is the null song
SongChange(c, room_id, song) ==
    /\ Idle
    /\ connState[c] = "open"
    /\ ev' = Event("song_change", c, room_id, Null, 0, "", song)
    /\ rooms' = IF room_id \in DOMAIN rooms
                THEN [rooms EXCEPT ![room_id] =
                        [@ EXCEPT !.currentSong = song,
                                  !.position = 0,
                                  !.status = SongStatus(song),
                                  !.lastSync = now]]
                ELSE rooms
    /\ sent' = <<Msg("song_change", room_id, Others(subs, room_id, c), room_id,
                     0, "", 0, song, <<>>)>>
    /\ log' = IF song # Null THEN <<LogLine("song", room_id, Null, 0)>> ELSE <<>>
    /\ UNCHANGED <<now, connState, currentRoomId, currentUserId, subs>>

\* Mutant of NextSongRoom: the room goes idle as well
NextSongRoom_idle(room, t) ==
    [room EXCEPT !.position = 0, !.lastSync = t, !.status = "idle"]

\* The room after next_song: room.position = 0; room.lastSync = Date.now()
NextSongRoom(room, t) == [room EXCEPT !.position = 0, !.lastSync = t]

\* socket.on('next_song')
NextSong(c, room_id) ==
    /\ Idle
    /\ connState[c] = "open"
    /\ ev' = Event("next_song", c, room_id, Null, 0, "", Null)
    /\ rooms' = IF room_id \in DOMAIN rooms
                THEN [rooms EXCEPT ![room_id] = NextSongRoom(@, now)]
                ELSE rooms
    /\ sent' = <<Msg("next_song", room_id, Others(subs, room_id, c), room_id,
                     0, "", 0, Null, <<>>)>>
    /\ log' = <<>>
    /\ UNCHANGED <<now, connState, currentRoomId, currentUserId, subs>>

\* socket.on('vote'): relayed only when the payload names a room
Vote(c, room_id) ==
    /\ Idle
    /\ connState[c] = "open"
    /\ ev' = Event("vote", c, room_id, Null, 0, "", Null)
    /\ sent' = IF room_id # Null
               THEN <<Msg("vote", room_id, Others(subs, room_id, c), room_id,
                          0, "", 0, Null, <<>>)>>
               ELSE <<>>
    /\ log' = <<>>
    /\ UNCHANGED <<now, rooms, connState, currentRoomId, currentUserId, subs>>

\* What doLeave(room_id) does when socket c calls it from leave_room
LeaveOutcome(c, room_id) ==
    doLeave(c, room_id, rooms, subs, currentRoomId[c], currentUserId[c], connState)

\* socket.on('leave_room')
LeaveRoom(c, room_id) ==
    /\ Idle
    /\ connState[c] = "open"
    /\ ev' = Event("leave_room", c, room_id, Null, 0, "", Null)
    /\ LET lv == LeaveOutcome(c, room_id)
       IN  /\ rooms' = lv.rooms
           /\ subs' = lv.subs
           /\ currentRoomId' = [currentRoomId EXCEPT ![c] = lv.curR]
           /\ currentUserId' = [currentUserId EXCEPT ![c] = lv.curU]
           /\ sent' = lv.sent
           /\ log' = lv.log
    /\ UNCHANGED <<now, connState>>

\* Mutant of DisconnectLeaves: a disconnect leaves no room
DisconnectLeaves_never(curR) == FALSE

\* if (currentRoomId) doLeave(currentRoomId)
DisconnectLeaves(curR) == curR # Null

\* socket.on('disconnect'): socket.io has already taken the socket out of
\* every room, its own included, when the handler runs; the closure
\* variables die with the socket.
Disconnect(c) ==
    /\ Idle
    /\ connState[c] = "open"
    /\ ev' = Event("disconnect", c, currentRoomId[c], Null, 0, "", Null)
    /\ connState' = [connState EXCEPT ![c] = "closed"]
    /\ LET sb0 == [subs EXCEPT ![c] = {}]
           lv  == IF DisconnectLeaves(currentRoomId[c])
                  THEN doLeave(c, currentRoomId[c], rooms, sb0, currentRoomId[c],
                               currentUserId[c], connState')
                  ELSE [rooms |-> rooms, subs |-> sb0, curR |-> Null,
                        curU |-> Null, sent |-> <<>>, log |-> <<>>]
       IN  /\ rooms' = lv.rooms
           /\ subs' = lv.subs
           /\ sent' = lv.sent
           /\ log' = lv.log
    /\ currentRoomId' = [currentRoomId EXCEPT ![c] = Null]
    /\ currentUserId' = [currentUserId EXCEPT ![c] = Null]
    /\ now' = now

\* The membership handlers, for sockets CS, users US and rooms RS
Membership(CS, US, RS) ==
    \/ \E c \in CS, r \in RS \cup {Null}, u \in US \cup {Null} : JoinRoom(c, r, u)
    \/ \E c \in CS, r \in RS : LeaveRoom(c, r)
    \/ \E c \in CS : Disconnect(c)

\* The transport and relay handlers
Transport(CS, RS) ==
    \/ \E c \in CS, r \in RS, p \in Positions, s \in StatusInputs,
          t \in ClientTimes :
          SyncPosition(c, r, p, s, t)
    \/ \E c \in CS, r \in RS, p \in Positions : Play(c, r, p)
    \/ \E c \in CS, r \in RS, p \in Positions : Pause(c, r, p)
    \/ \E c \in CS, r \in RS, s \in Songs \cup {Null} : SongChange(c, r, s)
    \/ \E c \in CS, r \in RS : NextSong(c, r)
    \/ \E c \in CS, r \in RS \cup {Null} : Vote(c, r)

\* Every handler, two sockets, one room
Next ==
    \/ Flush
    \/ Tick
    \/ Membership(Conns, Users, RoomIds)
    \/ \E c \in Conns, r \in RoomIds : RequestState(c, r)
    \/ Transport(Conns, RoomIds)

Spec == Init /\ [][Next]_vars

\* The membership handlers, two rooms
MemberNext ==
    \/ Flush
    \/ Membership(Conns, Users, MemberRoomIds)

MemberSpec == Init /\ [][MemberNext]_vars

\* The membership handlers, three sockets and three users in one room
HostInit == InitOn(HostConns)

HostNext ==
    \/ Flush
    \/ Membership(HostConns, HostUsers, RoomIds)

HostSpec == HostInit /\ [][HostNext]_vars

\* The user ids socket c joins under: its own user's, or the previous
\* user's as that user's second tab
OrderUsers(c) == {u \in HostUsers : u = c \/ u + 1 = c}

\* The membership handlers and the clock, three sockets and three users in
\* one room: joinedAt tells the order of the joins
OrderTick ==
    /\ Idle
    /\ now < OrderMaxTime
    /\ now' = now + 1
    /\ UNCHANGED <<ev, sent, log>>
    /\ UNCHANGED <<rooms, connState, currentRoomId, currentUserId, subs>>

OrderNext ==
    \/ Flush
    \/ OrderTick
    \/ \E c \in HostConns, r \in RoomIds :
          \E u \in OrderUsers(c) : JoinRoom(c, r, u)
    \/ \E c \in HostConns, r \in RoomIds : LeaveRoom(c, r)
    \/ \E c \in HostConns : Disconnect(c)

OrderSpec == HostInit /\ [][OrderNext]_vars

\* The transport handlers on payloads that lack room_id or position, one
\* room
FaultNext ==
    \/ Flush
    \/ Membership(Conns, Users, RoomIds)
    \/ \E c \in Conns, r \in RoomIds : RequestState(c, r)
    \/ \E c \in Conns, r \in RoomIds \cup {Null}, p \in Positions, s \in Statuses,
          t \in ClientTimes :
          SyncPosition(c, r, p, s, t)
    \/ \E c \in Conns, r \in RoomIds \cup {Null}, p \in Positions \cup {Missing} :
          Play(c, r, p)
    \/ \E c \in Conns, r \in RoomIds \cup {Null}, p \in Positions \cup {Missing} :
          Pause(c, r, p)

FaultSpec == Init /\ [][FaultNext]_vars

\* The playback clock read on every stored clock and every wall-clock value.
\* Date.now() is the wall clock, which an adjustment can set back, so the
\* states with now < lastSync are included.
ClockInit ==
    \E p \in Positions, s \in StatusInputs, t0 \in 0..ClockMaxTime, t \in 0..ClockMaxTime :
        /\ now = t
        /\ rooms = (1 :> [members      |-> <<[userId |-> 1, socketId |-> 1, joinedAt |-> 0]>>,
                          socketToUser |-> (1 :> 1),
                          hostUserId   |-> 1,
                          currentSong  |-> Null,
                          position     |-> p,
                          status       |-> s,
                          lastSync     |-> t0])
        /\ connState = [c \in Conns |-> "open"]
        /\ currentRoomId = [c \in Conns |-> IF c = 1 THEN 1 ELSE Null]
        /\ currentUserId = [c \in Conns |-> IF c = 1 THEN 1 ELSE Null]
        /\ subs = [c \in Conns |-> IF c = 1 THEN {1} ELSE {}]
        /\ ev = NoEvent
        /\ sent = <<>>
        /\ log = <<>>

ClockNext ==
    \/ Flush
    \/ \E c \in Conns : RequestState(c, 1)

ClockSpec == ClockInit /\ [][ClockNext]_vars

\* Two rooms with one member each (socket 1 joined room 1 as user 1, then
\* socket 2 joined room 2 as user 2), and the transport handlers and
\* request_state from either socket about either room.
IsolationInit ==
    /\ now = 0
    /\ rooms = [r \in MemberRoomIds |->
                  [NewRoom(0) EXCEPT
                     !.members = <<[userId |-> r, socketId |-> r, joinedAt |-> 0]>>,
                     !.socketToUser = (r :> r),
                     !.hostUserId = r]]
    /\ connState = [c \in Conns |-> "open"]
    /\ currentRoomId = [c \in Conns |-> c]
    /\ currentUserId = [c \in Conns |-> c]
    /\ subs = [c \in Conns |-> {c}]
    /\ ev = NoEvent
    /\ sent = <<>>
    /\ log = <<>>

IsolationNext ==
    \/ Flush
    \/ \E c \in Conns, r \in MemberRoomIds : RequestState(c, r)
    \/ Transport(Conns, MemberRoomIds)

IsolationSpec == IsolationInit /\ [][IsolationNext]_vars

\* ---------------------------------------------------------------- claims
ValidJoin(e) == e.type = "join_room" /\ e.room_id # Null /\ e.user_id # Null

Departure(e) == e.type \in {"leave_room", "disconnect"}

\* The positions in members at which userId is stored
EntriesOf(room, userId) ==
    {i \in 1..Len(room.members) : room.members[i].userId = userId}

Logged(kind) == {i \in 1..Len(log) : log[i].kind = kind}

\* The user a departing socket is bound to in a room
BoundUser(room, c, curU) ==
    IF c \in DOMAIN room.socketToUser THEN room.socketToUser[c] ELSE curU

\* The departure of ev' comes from a socket that is not the stored socket of
\* the member it is bound to
StaleDeparture ==
    /\ Departure(ev')
    /\ ev'.room_id \in DOMAIN rooms
    /\ LET room == rooms[ev'.room_id]
           u    == BoundUser(room, ev'.conn, currentUserId[ev'.conn])
       IN  /\ u \in MemberIds(room)
           /\ \A i \in EntriesOf(room, u) : room.members[i].socketId # ev'.conn

\* C1: every valid join_room leaves exactly one member entry for its user in
\* the room; the entry carries the joining connection, and its joinedAt is
\* the one already stored when the user was a member (so the value of the
\* first join survives every re-join) and the clock otherwise.
C1_OneEntryPerUser ==
    [][ValidJoin(ev') =>
         LET r == ev'.room_id
             u == ev'.user_id
         IN  /\ r \in DOMAIN rooms'
             /\ Cardinality(EntriesOf(rooms'[r], u)) = 1
             /\ \A i \in EntriesOf(rooms'[r], u) :
                  /\ rooms'[r].members[i].socketId = ev'.conn
                  /\ rooms'[r].members[i].joinedAt =
                       IF r \in DOMAIN rooms /\ u \in MemberIds(rooms[r])
                       THEN GetMember(rooms[r], u).joinedAt
                       ELSE now]_vars

\* A re-join from a second connection, later than the first join
C1_Witness ==
    /\ ValidJoin(ev)
    /\ ev.room_id \in DOMAIN rooms
    /\ Logged("re-joined") # {}
    /\ LET room == rooms[ev.room_id]
       IN  /\ \E d \in DOMAIN room.socketToUser :
                d # ev.conn /\ room.socketToUser[d] = ev.user_id
           /\ \A i \in EntriesOf(room, ev.user_id) :
                /\ room.members[i].socketId = ev.conn
                /\ room.members[i].joinedAt < now

\* C2: in every state the host of every stored room, when not null, is one
\* of the room's members.
C2_HostIsMember ==
    \A r \in DOMAIN rooms :
        rooms[r].hostUserId # Null => rooms[r].hostUserId \in MemberIds(rooms[r])

\* A departure removed the host and another member took over
C2_Witness ==
    /\ Departure(ev)
    /\ ev.room_id \in DOMAIN rooms
    /\ \E i \in Logged("left"), j \in Logged("new_host") :
          /\ log[i].user # log[j].user
          /\ rooms[ev.room_id].hostUserId = log[j].user

\* C3: no stored room has an empty members map, and a departure that removes
\* the last member leaves the room id out of the table.
C3_NoEmptyRoom ==
    /\ \A r \in DOMAIN rooms : Len(rooms[r].members) >= 1
    /\ \A i \in Logged("left") : log[i].n = 0 => log[i].room_id \notin DOMAIN rooms

\* The last member left and the room is gone
C3_Witness ==
    /\ Departure(ev)
    /\ \E i \in Logged("left") : log[i].n = 0 /\ log[i].room_id \notin DOMAIN rooms

C5_NoResurrection ==
    [][/\ \A i \in 1..Len(log') :
            (log'[i].kind = "left" /\ log'[i].n = 0)
                => log'[i].room_id \notin DOMAIN rooms'
       /\ (ev'.type = "request_state" /\ ev'.room_id \notin DOMAIN rooms)
            => (sent' = <<>> /\ rooms' = rooms)]_vars

\* A request_state for a room that a connection had joined and that was
\* deleted since
C5_Witness ==
    /\ ev.type = "request_state"
    /\ ev.room_id \notin DOMAIN rooms
    /\ sent = <<>>
    /\ \E c \in DOMAIN currentRoomId : currentRoomId[c] = ev.room_id

\* C6: a play event is relayed as one sync_position with the event's
\* position and status playing, delivered to every connection subscribed to
\* the room except the sender, and no message of the run reaches the sender.
C6_PlayRelay ==
    ev.type = "play" =>
        /\ Len(sent) = 1
        /\ sent[1].type = "sync_position"
        /\ sent[1].room_id = ev.room_id
        /\ sent[1].position = ev.position
        /\ sent[1].status = "playing"
        /\ sent[1].to = {c \in DOMAIN subs : ev.room_id \in subs[c] /\ c # ev.conn}
        /\ \A i \in 1..Len(sent) : ev.conn \notin sent[i].to

\* A play from a subscribed connection, relayed to another one
C6_Witness ==
    /\ ev.type = "play"
    /\ ev.position = MaxPos
    /\ ev.room_id \in subs[ev.conn]
    /\ Len(sent) = 1
    /\ sent[1].to # {}

\* C7: the room_state a join into a stored room sends to the joiner reports
\* the room's status and, in thousandths of a second, position + elapsed
\* time since lastSync when the room is playing and the stored position
\* when it is paused or idle.
C7_JoinReportsLivePosition ==
    [][(ValidJoin(ev') /\ ev'.room_id \in DOMAIN rooms) =>
         LET room == rooms[ev'.room_id]
             m    == sent'[Len(sent')]
         IN  /\ Len(sent') >= 1
             /\ m.type = "room_state"
             /\ m.addr = ev'.conn
             /\ m.status = room.status
             /\ room.status = "playing" =>
                  m.position = room.position * MsPerSec + (now - room.lastSync)
             /\ room.status \in {"paused", "idle"} =>
                  m.position = room.position * MsPerSec]_vars

\* A join into a room that has been playing for some time
C7_Witness ==
    /\ ValidJoin(ev)
    /\ ev.room_id \in DOMAIN rooms
    /\ rooms[ev.room_id].status = "playing"
    /\ rooms[ev.room_id].position = MaxPos
    /\ rooms[ev.room_id].lastSync < now
    /\ Len(sent) >= 1
    /\ sent[Len(sent)].position = MaxPos * MsPerSec + (now - rooms[ev.room_id].lastSync)

\* C8: the clock read of a playing room returns, in thousandths of a
\* second, position + (now - lastSync) whenever now >= lastSync, and the
\* stored position of a paused or idle room whatever now is.
C8_ClockRead ==
    (ev.type = "request_state" /\ ev.room_id \in DOMAIN rooms) =>
        LET room == rooms[ev.room_id]
        IN  /\ Len(sent) = 1
            /\ (room.status = "playing" /\ now >= room.lastSync) =>
                 sent[1].position = room.position * MsPerSec + (now - room.lastSync)
            /\ room.status \in {"paused", "idle"} =>
                 sent[1].position = room.position * MsPerSec

\* A read of a playing clock some time after its sync
C8_Witness ==
    /\ ev.type = "request_state"
    /\ ev.room_id \in DOMAIN rooms
    /\ rooms[ev.room_id].status = "playing"
    /\ rooms[ev.room_id].position > 0
    /\ now > rooms[ev.room_id].lastSync
    /\ sent[1].position > rooms[ev.room_id].position * MsPerSec

\* C9: a departure from a socket that is not the stored socket of the member
\* it is bound to leaves the room in the table with the same members map and
\* the same host.
C9_StaleDepartureKeepsRoom ==
    [][StaleDeparture =>
         /\ ev'.room_id \in DOMAIN rooms'
         /\ rooms'[ev'.room_id].members = rooms[ev'.room_id].members
         /\ rooms'[ev'.room_id].hostUserId = rooms[ev'.room_id].hostUserId]_vars

\* A departure that removed nobody although it was resolved to the host:
\* the host's socket is another one
C9_Witness ==
    /\ Departure(ev)
    /\ ev.room_id \in DOMAIN rooms
    /\ Logged("left") = {}
    /\ Logged("new_host") # {}
    /\ \A i \in EntriesOf(rooms[ev.room_id], rooms[ev.room_id].hostUserId) :
          rooms[ev.room_id].members[i].socketId # ev.conn

MultiTabDisconnect ==
    /\ ev'.type = "disconnect"
    /\ ev'.room_id \in DOMAIN rooms
    /\ LET room == rooms[ev'.room_id]
           c    == ev'.conn
       IN  /\ c \in DOMAIN room.socketToUser
           /\ HasMember(room, room.socketToUser[c])
           /\ \E d \in DOMAIN room.socketToUser :
                /\ d # c
                /\ connState[d] = "open"
                /\ ev'.room_id \in subs[d]
                /\ room.socketToUser[d] = room.socketToUser[c]

\* C11: when one of several open connections that a user has joined to a
\* room disconnects while another of them stays connected, the room stays
\* in the table, the user is still a member, the members map is the same
\* and the host is the same.
C11_MultiTabDisconnect ==
    [][MultiTabDisconnect =>
         /\ ev'.room_id \in DOMAIN rooms'
         /\ HasMember(rooms'[ev'.room_id],
                      rooms[ev'.room_id].socketToUser[ev'.conn])
         /\ rooms'[ev'.room_id].members = rooms[ev'.room_id].members
         /\ rooms'[ev'.room_id].hostUserId = rooms[ev'.room_id].hostUserId]_vars

\* C12: a valid join_room into a room id that is not in the table leaves the
\* room in the table with the joining user as host, and a valid join_room
\* into a stored room that has a host leaves that host in place.
C12_FirstJoinerIsHost ==
    [][ValidJoin(ev') =>
         LET r == ev'.room_id
         IN  /\ r \in DOMAIN rooms'
             /\ r \notin DOMAIN rooms => rooms'[r].hostUserId = ev'.user_id
             /\ (r \in DOMAIN rooms /\ rooms[r].hostUserId # Null) =>
                  rooms'[r].hostUserId = rooms[r].hostUserId]_vars

\* A second user joined a room that had a host, and the host is still the
\* first user
C12_Witness ==
    /\ ValidJoin(ev)
    /\ ev.room_id \in DOMAIN rooms
    /\ Logged("host") = {}
    /\ \E i \in Logged("joined") : log[i].user = ev.user_id /\ log[i].n = 2
    /\ rooms[ev.room_id].hostUserId # ev.user_id
    /\ rooms[ev.room_id].hostUserId = rooms[ev.room_id].members[1].userId

\* C13: in every state every stored room has a non-null hostUserId.
C13_StoredRoomHasHost ==
    \A r \in DOMAIN rooms : rooms[r].hostUserId # Null

\* The join that created the room: getRoom stored it with a null host and
\* the same run made the joiner its host
C13_Witness ==
    /\ ValidJoin(ev)
    /\ ev.room_id \in DOMAIN rooms
    /\ \E i \in Logged("host") : log[i].user = ev.user_id
    /\ Len(rooms[ev.room_id].members) = 1
    /\ rooms[ev.room_id].hostUserId = ev.user_id

\* C14: in every state the status of every stored room is one of playing,
\* paused, idle, whatever status the sync_position events carried.
C14_StatusInRange ==
    \A r \in DOMAIN rooms : rooms[r].status \in Statuses

\* The events whose handlers write the playback clock of a known room
ClockWriters == {"sync_position", "play", "pause", "song_change", "next_song"}

\* C15: in every step, a stored room named by a sync_position, play, pause,
\* song_change or next_song event gets both its position (the event's
\* position, 0 for song_change and next_song) and its lastSync (the clock)
\* written, and every other stored room, and every room in every other step,
\* the steps that read the clock with getCurrentPosition included, keeps
\* both; request_state leaves the whole table as it was.
C15_ClockWrittenTogether ==
    [][/\ \A r \in (DOMAIN rooms) \cap (DOMAIN rooms') :
            IF ev'.type \in ClockWriters /\ ev'.room_id = r
            THEN /\ rooms'[r].position = ev'.position
                 /\ rooms'[r].lastSync = now'
            ELSE /\ rooms'[r].position = rooms[r].position
                 /\ rooms'[r].lastSync = rooms[r].lastSync
       /\ ev'.type = "request_state" => rooms' = rooms]_vars

\* A play moved the clock of a room that had been created earlier: the new
\* position and the new lastSync were written by the same run
C15_Witness ==
    /\ ev.type = "play"
    /\ ev.room_id \in DOMAIN rooms
    /\ ev.position = MaxPos
    /\ rooms[ev.room_id].position = MaxPos
    /\ rooms[ev.room_id].lastSync = now
    /\ rooms[ev.room_id].members[1].joinedAt < now

\* C16: a join_room whose room_id or user_id is missing or empty leaves the
\* room table, the closure variables of every connection and the socket.io
\* subscriptions as they were, and sends nothing.
C16_MalformedJoinDropped ==
    [][(ev'.type = "join_room" /\ (ev'.room_id = Null \/ ev'.user_id = Null)) =>
         /\ rooms' = rooms
         /\ currentRoomId' = currentRoomId
         /\ currentUserId' = currentUserId
         /\ subs' = subs
         /\ connState' = connState
         /\ sent' = <<>>]_vars

\* A join_room without user_id, naming a room that is not stored, from a
\* connection that is a member of another room
C16_Witness ==
    /\ ev.type = "join_room"
    /\ ev.room_id # Null
    /\ ev.user_id = Null
    /\ ev.room_id \notin DOMAIN rooms
    /\ currentRoomId[ev.conn] \in DOMAIN rooms
    /\ currentUserId[ev.conn] \in MemberIds(rooms[currentRoomId[ev.conn]])
    /\ sent = <<>>

\* A play or pause without room_id or without position, or a sync_position
\* without room_id
MalformedTransport(e) ==
    \/ e.type \in {"play", "pause"} /\ (e.room_id = Null \/ e.position = Missing)
    \/ e.type = "sync_position" /\ e.room_id = Null

\* The server process has ended: no connection is served any more
Crashed(cs) == \A c \in DOMAIN cs : cs[c] = "down"

\* C17: a play or pause without room_id or position, or a sync_position
\* without room_id, leaves the room table as it was, delivers no message to
\* any connection, and leaves the server running.
C17_MalformedTransportDropped ==
    [][MalformedTransport(ev') =>
         /\ rooms' = rooms
         /\ \A i \in 1..Len(sent') : sent'[i].to = {}
         /\ ~Crashed(connState')]_vars

\* C18: a valid join_room into a room id that is not in the table stores one
\* room whose only member and host is the joiner; a valid join_room by
\* another user from another connection into a room that holds exactly one
\* member leaves that same room with the first member's entry untouched in
\* first place, the joiner in second place, and the first member as host.
\* Whichever of two joins of a new room runs first, the room therefore ends
\* with both users and the first-processed one as host.
C18_JoinRaceOneRoom ==
    [][ValidJoin(ev') =>
         LET r == ev'.room_id
             u == ev'.user_id
             c == ev'.conn
         IN  /\ r \notin DOMAIN rooms =>
                  /\ r \in DOMAIN rooms'
                  /\ MemberIds(rooms'[r]) = {u}
                  /\ Len(rooms'[r].members) = 1
                  /\ rooms'[r].hostUserId = u
             /\ (/\ r \in DOMAIN rooms
                 /\ Len(rooms[r].members) = 1
                 /\ rooms[r].members[1].userId # u
                 /\ rooms[r].members[1].socketId # c) =>
                  /\ r \in DOMAIN rooms'
                  /\ Len(rooms'[r].members) = 2
                  /\ rooms'[r].members[1] = rooms[r].members[1]
                  /\ rooms'[r].members[2].userId = u
                  /\ rooms'[r].members[2].socketId = c
                  /\ rooms'[r].hostUserId = rooms[r].members[1].userId
                  /\ rooms'[r].lastSync = rooms[r].lastSync]_vars

\* The second of two joins of a room: two members on two connections, the
\* earlier one is the host, and both connections get the member list
C18_Witness ==
    /\ ValidJoin(ev)
    /\ ev.room_id \in DOMAIN rooms
    /\ Logged("host") = {}
    /\ LET room == rooms[ev.room_id]
       IN  /\ Len(room.members) = 2
           /\ room.members[2].userId = ev.user_id
           /\ room.members[2].socketId = ev.conn
           /\ room.members[1].socketId # ev.conn
           /\ room.hostUserId = room.members[1].userId
           /\ sent[1].to = {room.members[1].socketId, ev.conn}

\* The status a transport event leaves in a room whose status was st
WrittenStatus(e, st) ==
    CASE e.type = "play"          -> "playing"
      [] e.type = "pause"         -> "paused"
      [] e.type = "sync_position" -> e.status
      [] e.type = "song_change"   -> IF e.song # Null THEN "playing" ELSE "idle"
      [] OTHER                    -> st

\* The name under which a transport event is relayed
RelayedAs(e) == IF e.type \in {"play", "pause"} THEN "sync_position" ELSE e.type

\* C19: a play, pause, sync_position, song_change or next_song naming a
\* stored room is applied and relayed whoever sends it: the room gets the
\* event's position, status and song and the clock, and one message goes to
\* every connection subscribed to the room except the sender. Nothing in
\* the outcome depends on the sender's user or on hostUserId.
C19_NoSenderCheck ==
    [][(ev'.type \in ClockWriters /\ ev'.room_id \in DOMAIN rooms) =>
         LET e   == ev'
             r   == ev'.room_id
             old == rooms[r]
         IN  /\ r \in DOMAIN rooms'
             /\ rooms'[r] = [old EXCEPT
                               !.position = e.position,
                               !.lastSync = now,
                               !.status = WrittenStatus(e, old.status),
                               !.currentSong = IF e.type = "song_change"
                                               THEN e.song ELSE old.currentSong]
             /\ Len(sent') = 1
             /\ sent'[1].type = RelayedAs(e)
             /\ sent'[1].room_id = r
             /\ sent'[1].to = InRoom(subs, r) \ {e.conn}]_vars

\* A pause sent by a member who is not the host: the room took it and the
\* host's connection received the relay
C19_Witness ==
    /\ ev.type = "pause"
    /\ ev.room_id \in DOMAIN rooms
    /\ ev.position = MaxPos
    /\ LET room == rooms[ev.room_id]
       IN  /\ currentUserId[ev.conn] \in MemberIds(room)
           /\ currentUserId[ev.conn] # room.hostUserId
           /\ room.status = "paused"
           /\ room.position = MaxPos
           /\ Len(sent) = 1
           /\ GetMember(room, room.hostUserId).socketId \in sent[1].to

\* C20: the clock read of a playing room whose lastSync is later than the
\* clock returns the stored position (the elapsed time counts as 0), and no
\* clock read of a playing room returns less than the stored position.
C20_ElapsedClamped ==
    (/\ ev.type = "request_state"
     /\ ev.room_id \in DOMAIN rooms
     /\ rooms[ev.room_id].status = "playing") =>
        LET room == rooms[ev.room_id]
        IN  /\ Len(sent) = 1
            /\ sent[1].position >= room.position * MsPerSec
            /\ now < room.lastSync => sent[1].position = room.position * MsPerSec

\* The positions in sent of the messages of one type about one room
SentOf(type, roomId) ==
    {i \in 1..Len(sent) : sent[i].type = type /\ sent[i].room_id = roomId}

\* The user ids a serialized member list names, in order
ListedUsers(list) == [i \in 1..Len(list) |-> list[i].user_id]

\* The user ids of a room's members, in enumeration order
MemberOrder(room) == [i \in 1..Len(room.members) |-> room.members[i].userId]

\* C21: a valid join_room sends exactly one members_update about the room,
\* delivered to every connection subscribed to it, the joiner included, and
\* after it exactly one room_state, delivered to the joiner only; both list
\* the room's members as they are after the upsert, the joining user among
\* them.
C21_JoinFanOut ==
    ValidJoin(ev) =>
        LET r == ev.room_id
            n == Len(sent)
        IN  /\ r \in DOMAIN rooms
            /\ n >= 2
            /\ SentOf("members_update", r) = {n - 1}
            /\ SentOf("room_state", r) = {n}
            /\ \A i \in 1..n : sent[i].type = "room_state" => i = n
            /\ sent[n - 1].to = {c \in DOMAIN subs : r \in subs[c]}
            /\ ev.conn \in sent[n - 1].to
            /\ sent[n].to = {ev.conn}
            /\ ListedUsers(sent[n - 1].members) = MemberOrder(rooms[r])
            /\ ListedUsers(sent[n].members) = MemberOrder(rooms[r])
            /\ \E i \in 1..Len(sent[n].members) :
                  sent[n].members[i].user_id = ev.user_id
            /\ \E i \in 1..Len(sent[n - 1].members) :
                  sent[n - 1].members[i].user_id = ev.user_id

\* A second user joined: the members_update reached both connections, the
\* room_state only the joiner, and both list the two users
C21_Witness ==
    /\ ValidJoin(ev)
    /\ ev.room_id \in DOMAIN rooms
    /\ Len(sent) = 2
    /\ sent[1].type = "members_update"
    /\ Cardinality(sent[1].to) = 2
    /\ sent[2].type = "room_state"
    /\ sent[2].to = {ev.conn}
    /\ Len(sent[1].members) = 2
    /\ Len(sent[2].members) = 2
    /\ sent[2].members[2].user_id = ev.user_id

\* The join_room of ev' names another room than r1, in which the sending
\* connection is the stored connection of member u
MovesRoom(r1, u) ==
    /\ ValidJoin(ev')
    /\ r1 \in DOMAIN rooms
    /\ r1 # ev'.room_id
    /\ HasMember(rooms[r1], u)
    /\ GetMember(rooms[r1], u).socketId = ev'.conn

\* What the implicit leave of room r1 by user u and the join that follows
\* it leave behind
LeftThenJoined(r1, u) ==
    LET c   == ev'.conn
        r2  == ev'.room_id
        old == rooms[r1]
    IN  /\ IF Len(old.members) = 1
           THEN r1 \notin DOMAIN rooms'
           ELSE /\ r1 \in DOMAIN rooms'
                /\ rooms'[r1].members = DeleteMember(old.members, u)
                /\ rooms'[r1].hostUserId # u
                /\ rooms'[r1].hostUserId \in MemberIds(rooms'[r1])
                /\ old.hostUserId # u => rooms'[r1].hostUserId = old.hostUserId
                /\ c \notin DOMAIN rooms'[r1].socketToUser
        /\ r1 \notin subs'[c]
        /\ r2 \in subs'[c]
        /\ currentRoomId'[c] = r2
        /\ currentUserId'[c] = ev'.user_id
        /\ r2 \in DOMAIN rooms'
        /\ HasMember(rooms'[r2], ev'.user_id)
        /\ \A i, j \in 1..Len(sent') :
             (sent'[i].room_id = r1 /\ sent'[j].room_id = r2) => i < j

\* The implicit leave for the user the connection is bound to in r1 (its
\* socketToUser entry): this user is removed from r1 before the join
BoundUserLeavesFirst ==
    [][\A r1 \in DOMAIN rooms : \A u \in MemberIds(rooms[r1]) :
         (/\ MovesRoom(r1, u)
          /\ ev'.conn \in DOMAIN rooms[r1].socketToUser
          /\ rooms[r1].socketToUser[ev'.conn] = u)
            => LeftThenJoined(r1, u)]_vars

\* C22: when a connection that is the stored connection of a member u of
\* room r1 sends a valid join_room for another room r2, then after the step
\* u is not a member of r1; r1 is out of the table when u was its only
\* member and otherwise stays with the other members, with a host among
\* them that is not u; the connection is not subscribed to r1; its recorded
\* current room is r2, of which its user is a member; and the messages about
\* r1 come before the messages about r2.
C22_ImplicitLeaveFirst ==
    [][\A r1 \in DOMAIN rooms : \A u \in MemberIds(rooms[r1]) :
         MovesRoom(r1, u) => LeftThenJoined(r1, u)]_vars

\* C23: a play on a stored room leaves position = the event's position,
\* status = playing and lastSync = the server clock, a pause the same with
\* status = paused; both leave currentSong, members, socketToUser and
\* hostUserId of the room, and every other room, as they were.
C23_PlayPauseFields ==
    [][(ev'.type \in {"play", "pause"} /\ ev'.room_id \in DOMAIN rooms) =>
         LET r == ev'.room_id
         IN  /\ DOMAIN rooms' = DOMAIN rooms
             /\ rooms'[r].position = ev'.position
             /\ rooms'[r].status = IF ev'.type = "play" THEN "playing" ELSE "paused"
             /\ rooms'[r].lastSync = now
             /\ now' = now
             /\ rooms'[r].currentSong = rooms[r].currentSong
             /\ rooms'[r].members = rooms[r].members
             /\ rooms'[r].socketToUser = rooms[r].socketToUser
             /\ rooms'[r].hostUserId = rooms[r].hostUserId
             /\ \A q \in (DOMAIN rooms) \ {r} : rooms'[q] = rooms[q]]_vars

\* A pause of a room that has a song and two members, later than the
\* room's creation
C23_Witness ==
    /\ ev.type = "pause"
    /\ ev.room_id \in DOMAIN rooms
    /\ ev.position = MaxPos
    /\ LET room == rooms[ev.room_id]
       IN  /\ room.position = MaxPos
           /\ room.status = "paused"
           /\ room.lastSync = now
           /\ room.currentSong # Null
           /\ Len(room.members) = 2
           /\ room.members[1].joinedAt < now

\* C24: a song_change on a stored room leaves currentSong = the event's
\* song, position = 0, lastSync = the server clock and status = playing for
\* a song, idle for the null song; members and host stay; one song_change
\* message carrying the room id and the song is delivered to every
\* connection subscribed to the room except the sender.
C24_SongChangeFields ==
    [][(ev'.type = "song_change" /\ ev'.room_id \in DOMAIN rooms) =>
         LET r == ev'.room_id
         IN  /\ DOMAIN rooms' = DOMAIN rooms
             /\ rooms'[r].currentSong = ev'.song
             /\ rooms'[r].position = 0
             /\ rooms'[r].lastSync = now
             /\ ev'.song # Null => rooms'[r].status = "playing"
             /\ ev'.song = Null => rooms'[r].status = "idle"
             /\ rooms'[r].members = rooms[r].members
             /\ rooms'[r].hostUserId = rooms[r].hostUserId
             /\ Len(sent') = 1
             /\ sent'[1].type = "song_change"
             /\ sent'[1].room_id = r
             /\ sent'[1].song = ev'.song
             /\ sent'[1].to = {d \in DOMAIN subs : r \in subs[d] /\ d # ev'.conn}]_vars

\* The null song was set on a room that had moved on from its creation: the
\* room is idle at position 0 and another connection got the relay
C24_Witness ==
    /\ ev.type = "song_change"
    /\ ev.song = Null
    /\ ev.room_id \in DOMAIN rooms
    /\ rooms[ev.room_id].status = "idle"
    /\ rooms[ev.room_id].currentSong = Null
    /\ rooms[ev.room_id].position = 0
    /\ rooms[ev.room_id].lastSync = now
    /\ rooms[ev.room_id].members[1].joinedAt < now
    /\ Len(sent) = 1
    /\ sent[1].to # {}
    /\ ev.conn \notin sent[1].to

\* C25: a next_song on a stored room leaves position = 0 and lastSync = the
\* server clock and every other field of the room (status, currentSong,
\* members, socketToUser, hostUserId) as it was; one next_song message
\* carrying the room id is delivered to every connection subscribed to the
\* room except the sender.
C25_NextSongFields ==
    [][(ev'.type = "next_song" /\ ev'.room_id \in DOMAIN rooms) =>
         LET r == ev'.room_id
         IN  /\ DOMAIN rooms' = DOMAIN rooms
             /\ rooms'[r].position = 0
             /\ rooms'[r].lastSync = now
             /\ rooms'[r].status = rooms[r].status
             /\ rooms'[r].currentSong = rooms[r].currentSong
             /\ rooms'[r].members = rooms[r].members
             /\ rooms'[r].socketToUser = rooms[r].socketToUser
             /\ rooms'[r].hostUserId = rooms[r].hostUserId
             /\ Len(sent') = 1
             /\ sent'[1].type = "next_song"
             /\ sent'[1].room_id = r
             /\ sent'[1].to = {d \in DOMAIN subs : r \in subs[d] /\ d # ev'.conn}]_vars

\* A next_song on a room that is playing a song: still playing the same
\* song, from position 0, and another connection got the relay
C25_Witness ==
    /\ ev.type = "next_song"
    /\ ev.room_id \in DOMAIN rooms
    /\ rooms[ev.room_id].status = "playing"
    /\ rooms[ev.room_id].currentSong # Null
    /\ rooms[ev.room_id].position = 0
    /\ rooms[ev.room_id].lastSync = now
    /\ rooms[ev.room_id].members[1].joinedAt < now
    /\ Len(sent) = 1
    /\ sent[1].to # {}

\* C26: every sync_position, play, pause, song_change and next_song on a
\* stored room leaves lastSync = the server clock, whatever server_time the
\* client sent; a sync_position is relayed as one message with the event's
\* position and status and server_time = the server clock, delivered to
\* every connection subscribed to the room except the sender.
C26_ServerReceiptTime ==
    [][/\ (ev'.type \in ClockWriters /\ ev'.room_id \in DOMAIN rooms) =>
            /\ ev'.room_id \in DOMAIN rooms'
            /\ rooms'[ev'.room_id].lastSync = now
            /\ now' = now
       /\ ev'.type = "sync_position" =>
            /\ Len(sent') = 1
            /\ sent'[1].type = "sync_position"
            /\ sent'[1].room_id = ev'.room_id
            /\ sent'[1].position = ev'.position
            /\ sent'[1].status = ev'.status
            /\ sent'[1].server_time = now
            /\ sent'[1].to =
                 {d \in DOMAIN subs : ev'.room_id \in subs[d] /\ d # ev'.conn}]_vars

\* A sync_position whose server_time is ahead of the server clock: the room
\* and the relay, which reached another connection, carry the server clock
C26_Witness ==
    /\ ev.type = "sync_position"
    /\ ev.room_id \in DOMAIN rooms
    /\ ev.server_time > now
    /\ ev.position = MaxPos
    /\ ev.status = "playing"
    /\ rooms[ev.room_id].lastSync = now
    /\ rooms[ev.room_id].members[1].joinedAt < now
    /\ Len(sent) = 1
    /\ sent[1].server_time = now
    /\ sent[1].position = MaxPos
    /\ sent[1].status = "playing"
    /\ sent[1].to # {}

\* The connections that a message of the given type of the step reaches
ReachedBy(type) ==
    UNION {sent'[i].to : i \in {j \in 1..Len(sent') : sent'[j].type = type}}

\* C27: a vote whose payload is (poll_id, user_id, song_id), hence without
\* room_id, sent by a connection that is joined to a room, reaches every
\* other connection subscribed to that room and not the sender, and leaves
\* the room table as it was.
C27_VoteRelayed ==
    [][(/\ ev'.type = "vote"
        /\ ev'.room_id = Null
        /\ currentRoomId[ev'.conn] \in DOMAIN rooms
        /\ currentRoomId[ev'.conn] \in subs[ev'.conn]) =>
         /\ rooms' = rooms
         /\ ReachedBy("vote") =
              {d \in DOMAIN subs :
                  currentRoomId[ev'.conn] \in subs[d] /\ d # ev'.conn}]_vars

\* C28: in the state after a run that removed a member from a room, when
\* members remain the run sent exactly one members_update about the room:
\* it lists the remaining members in order, not the removed user, and was
\* delivered to the connections subscribed to the room, the departed
\* connection not among them; when no member remains the room is out of the
\* table and the run sent no members_update and no promoted_to_host about
\* it.
C28_DepartureUpdate ==
    \A i \in Logged("left") :
        LET r == log[i].room_id
        IN  IF log[i].n > 0
            THEN /\ r \in DOMAIN rooms
                 /\ Cardinality(SentOf("members_update", r)) = 1
                 /\ \A j \in SentOf("members_update", r) :
                      /\ ListedUsers(sent[j].members) = MemberOrder(rooms[r])
                      /\ Len(sent[j].members) = log[i].n
                      /\ \A k \in 1..Len(sent[j].members) :
                            sent[j].members[k].user_id # log[i].user
                      /\ sent[j].to = {d \in DOMAIN subs : r \in subs[d]}
                      /\ ev.conn \notin sent[j].to
            ELSE /\ r \notin DOMAIN rooms
                 /\ SentOf("members_update", r) = {}
                 /\ SentOf("promoted_to_host", r) = {}

\* One of three members left: the members_update lists the two who remain
\* and reached their two connections
C28_Witness ==
    /\ Departure(ev)
    /\ \E i \in Logged("left") :
          /\ log[i].n = 2
          /\ log[i].room_id \in DOMAIN rooms
          /\ \E j \in SentOf("members_update", log[i].room_id) :
                /\ Len(sent[j].members) = 2
                /\ Cardinality(sent[j].to) = 2
                /\ ev.conn \notin sent[j].to

\* C29: in the state after a run that sent a promoted_to_host about a room,
\* the member the run removed from the room is gone, the room's host is the
\* member whose stored connection the promoted_to_host was addressed to,
\* and the message right after the promoted_to_host is the one
\* members_update of the run about the room, listing the members after the
\* removal; no members_update about the room precedes the promoted_to_host.
C29_PromotionBeforeUpdate ==
    \A i \in 1..Len(sent) : sent[i].type = "promoted_to_host" =>
        LET r == sent[i].room_id
        IN  /\ r \in DOMAIN rooms
            /\ \A k \in Logged("left") :
                  log[k].room_id = r => log[k].user \notin MemberIds(rooms[r])
            /\ rooms[r].hostUserId \in MemberIds(rooms[r])
            /\ sent[i].addr = GetMember(rooms[r], rooms[r].hostUserId).socketId
            /\ SentOf("members_update", r) = {i + 1}
            /\ i + 1 <= Len(sent)
            /\ ListedUsers(sent[i + 1].members) = MemberOrder(rooms[r])
            /\ \A k \in Logged("left"), m \in Logged("new_host") :
                  (log[k].room_id = r /\ log[m].room_id = r) => k < m

\* The host of a room of two left: first the promoted_to_host to the other
\* member's connection, then the members_update that lists only that member
C29_Witness ==
    /\ Departure(ev)
    /\ Len(sent) = 2
    /\ sent[1].type = "promoted_to_host"
    /\ sent[2].type = "members_update"
    /\ sent[1].room_id \in DOMAIN rooms
    /\ Len(sent[2].members) = 1
    /\ sent[2].members[1].user_id = rooms[sent[1].room_id].hostUserId
    /\ sent[1].to # {}
    /\ \E k \in Logged("left") :
          /\ log[k].user # rooms[sent[1].room_id].hostUserId
          /\ log[k].n = 1

\* C30: (a) the enumeration order of members is the order in which the
\* first joins were processed: a join of a user who is not a member appends
\* the user, stamped with the clock, behind every member; a re-join keeps
\* the user's place and stamp; a departure takes at most one user out and
\* keeps the order of the others. (b) The host that a reassignment sets is
\* the first member of the room after the removal, which stood before every
\* other remaining member before the removal and whose first join is not
\* later than any of theirs.
C30_SuccessorIsEarliestJoiner ==
    [][/\ \A r \in (DOMAIN rooms) \cap (DOMAIN rooms') :
            LET old == rooms[r]
                new == rooms'[r]
            IN  IF ValidJoin(ev') /\ ev'.room_id = r
                THEN IF HasMember(old, ev'.user_id)
                     THEN /\ MemberOrder(new) = MemberOrder(old)
                          /\ GetMember(new, ev'.user_id).joinedAt =
                               GetMember(old, ev'.user_id).joinedAt
                     ELSE /\ MemberOrder(new) = Append(MemberOrder(old), ev'.user_id)
                          /\ new.members[Len(new.members)].joinedAt = now
                          /\ \A i \in 1..Len(old.members) :
                                old.members[i].joinedAt <= now
                ELSE \/ new.members = old.members
                     \/ \E u \in MemberIds(old) :
                           new.members = DeleteMember(old.members, u)
       /\ \A k \in 1..Len(log') : log'[k].kind = "new_host" =>
            LET r == log'[k].room_id
                h == log'[k].user
            IN  /\ r \in DOMAIN rooms
                /\ r \in DOMAIN rooms'
                /\ rooms'[r].hostUserId = h
                /\ rooms'[r].members[1].userId = h
                /\ \A i \in 1..Len(rooms'[r].members) :
                      /\ GetMember(rooms[r], h).joinedAt
                            <= rooms'[r].members[i].joinedAt
                      /\ rooms'[r].members[i].userId # h =>
                            MemberIndex(rooms[r], h)
                              < MemberIndex(rooms[r], rooms'[r].members[i].userId)]_vars

\* The host left a room of three: of the two who remain, the one who joined
\* strictly earlier is the new host
C30_Witness ==
    /\ Departure(ev)
    /\ ev.room_id \in DOMAIN rooms
    /\ Len(rooms[ev.room_id].members) = 2
    /\ rooms[ev.room_id].members[1].joinedAt < rooms[ev.room_id].members[2].joinedAt
    /\ \E i \in Logged("left"), j \in Logged("new_host") :
          /\ log[i].user # log[j].user
          /\ log[i].user \notin MemberIds(rooms[ev.room_id])
          /\ log[j].user = rooms[ev.room_id].members[1].userId
          /\ rooms[ev.room_id].hostUserId = log[j].user

\* A sequence of messages as the connections other than c see it
SeenByOthers(msgs, c) ==
    [i \in 1..Len(msgs) |-> [msgs[i] EXCEPT !.to = @ \ {c}]]

\* C31: a disconnect of a connection whose recorded room is r leaves the
\* room table that leave_room(r) from that connection would leave in the
\* same state, and emits the same messages, in the same order, with the same
\* addresses and contents, reaching the same other connections.
C31_DisconnectAsLeave ==
    [][(ev'.type = "disconnect" /\ currentRoomId[ev'.conn] # Null) =>
         LET c  == ev'.conn
             lv == LeaveOutcome(c, currentRoomId[c])
         IN  /\ rooms' = lv.rooms
             /\ SeenByOthers(sent', c) = SeenByOthers(lv.sent, c)
             /\ log' = lv.log]_vars

\* The host disconnected from a room of two: the other member was promoted
\* and told so, as after a leave_room
C31_Witness ==
    /\ ev.type = "disconnect"
    /\ ev.room_id \in DOMAIN rooms
    /\ connState[ev.conn] = "closed"
    /\ Len(sent) = 2
    /\ sent[1].type = "promoted_to_host"
    /\ sent[1].to # {}
    /\ sent[2].type = "members_update"
    /\ sent[2].to # {}
    /\ \E i \in Logged("left") : log[i].user \notin MemberIds(rooms[ev.room_id])

\* C32: a request_state event, for a known or an unknown room id, leaves
\* the rooms table and every field of every room as they were, and sends at
\* most one message, a room_state addressed to and received by the
\* requesting connection alone, that reports the position read from the
\* unchanged room.
C32_RequestStateReadOnly ==
    [][ev'.type = "request_state" =>
         /\ rooms' = rooms
         /\ Len(sent') = (IF ev'.room_id \in DOMAIN rooms THEN 1 ELSE 0)
         /\ \A i \in 1..Len(sent') :
              /\ sent'[i].type = "room_state"
              /\ sent'[i].addr = ev'.conn
              /\ sent'[i].to = {ev'.conn}
              /\ sent'[i].position = getCurrentPosition(rooms[ev'.room_id], now)]_vars

\* A second request_state in a row for a playing room with two subscribers,
\* some time after the last write: the reply went to the requester only
C32_Witness ==
    /\ ev.type = "request_state"
    /\ ev.room_id \in DOMAIN rooms
    /\ rooms[ev.room_id].status = "playing"
    /\ rooms[ev.room_id].lastSync < now
    /\ InRoom(subs, ev.room_id) = Conns
    /\ Len(sent) = 1
    /\ sent[1].to = {ev.conn}
    /\ sent[1].position > rooms[ev.room_id].position * MsPerSec

\* The events, other than join_room, that carry a room id
NamesRoom(e) ==
    e.type \in {"play", "pause", "sync_position", "song_change", "next_song",
                "vote", "leave_room", "request_state"}

\* C33: a play, pause, sync_position, song_change, next_song, vote,
\* leave_room (or request_state) event that names a room id absent from the
\* rooms table leaves the rooms table unchanged; a step adds a room to the
\* table only when it is a join_room with a room id and a user id.
C33_OnlyJoinCreates ==
    [][/\ (NamesRoom(ev') /\ ev'.room_id \notin DOMAIN rooms) => rooms' = rooms
       /\ (DOMAIN rooms' \ DOMAIN rooms # {}) =>
             (ValidJoin(ev') /\ DOMAIN rooms' \ DOMAIN rooms = {ev'.room_id})]_vars

\* A play names a room that was deleted after its last member left; the
\* sender still records that room id
C33_Witness ==
    /\ ev.type = "play"
    /\ ev.room_id \notin DOMAIN rooms
    /\ rooms = <<>>
    /\ currentRoomId[ev.conn] = ev.room_id

\* The rooms a step may touch: the room its event names and, for a
\* join_room, the room the joining connection recorded before (the implicit
\* leave)
RoomsOf(e, curR) ==
    ({e.room_id} \cup (IF e.type = "join_room" THEN {curR[e.conn]} ELSE {}))
        \ {Null}

\* Connection d is subscribed, before and after the step, only to rooms
\* outside RS
OnlyElsewhere(d, RS) ==
    /\ subs[d] # {}
    /\ subs'[d] # {}
    /\ (subs[d] \cup subs'[d]) \cap RS = {}

\* C34: an event that names room r (a transport event, request_state,
\* leave_room or join_room) changes no field of any room other than r and,
\* for a join_room, the joining connection's previous room, and none of its
\* messages reaches a connection, other than the sender of the event, that
\* is subscribed only to other rooms.
C34_RoomsIndependent ==
    [][(NamesRoom(ev') \/ ev'.type = "join_room") =>
         LET RS == RoomsOf(ev', currentRoomId)
         IN  /\ \A q \in DOMAIN rooms \ RS :
                   q \in DOMAIN rooms' /\ rooms'[q] = rooms[q]
             /\ DOMAIN rooms' \ DOMAIN rooms \subseteq RS
             /\ \A i \in 1..Len(sent') :
                   \A d \in sent'[i].to \ {ev'.conn} : ~OnlyElsewhere(d, RS)]_vars

\* Lemma (holds under IsolationSpec): the transport events and request_state
\* alone keep to the room they name, in the table and in their recipients
\* (the room's subscribers and the sender).
TransportKeepsToItsRoom ==
    [][NamesRoom(ev') =>
         /\ \A q \in DOMAIN rooms \ {ev'.room_id} : rooms'[q] = rooms[q]
         /\ DOMAIN rooms' = DOMAIN rooms
         /\ \A i \in 1..Len(sent') :
               sent'[i].to \subseteq InRoom(subs, ev'.room_id) \cup {ev'.conn}]_vars

\* Lemma (holds under MemberSpec): join_room and leave_room change no field
\* of a room other than the one named and the joiner's previous one.
MembershipKeepsToItsRooms ==
    [][ev'.type \in {"join_room", "leave_room"} =>
         LET RS == RoomsOf(ev', currentRoomId)
         IN  /\ \A q \in DOMAIN rooms \ RS :
                   q \in DOMAIN rooms' /\ rooms'[q] = rooms[q]
             /\ DOMAIN rooms' \ DOMAIN rooms \subseteq RS]_vars

\* C35: in every state each stored room's hostUserId is the first key of
\* its members map in enumeration order; and a host reassignment run while
\* the recorded host is still a member (the departing socket was not the
\* host's stored socket) selects the same user again.
C35_HostIsFirstMember ==
    [][/\ \A r \in DOMAIN rooms' :
             /\ Len(rooms'[r].members) > 0
             /\ rooms'[r].hostUserId = rooms'[r].members[1].userId
       /\ \A i \in Logged("new_host")' :
             LET r == log'[i].room_id
             IN  (r \in DOMAIN rooms /\ r \in DOMAIN rooms'
                  /\ HasMember(rooms'[r], rooms[r].hostUserId))
                    => /\ rooms'[r].hostUserId = rooms[r].hostUserId
                       /\ log'[i].user = rooms[r].hostUserId]_vars

\* A reassignment ran in a room of three members whose host stayed: the
\* host is the first member, as before, and two later joiners follow
C35_Witness ==
    /\ Departure(ev)
    /\ ev.room_id \in DOMAIN rooms
    /\ Logged("new_host") # {}
    /\ Logged("left") = {}
    /\ Len(rooms[ev.room_id].members) = 3
    /\ rooms[ev.room_id].hostUserId = rooms[ev.room_id].members[1].userId
    /\ \E i \in Logged("new_host") : log[i].user = rooms[ev.room_id].hostUserId

\* C36: no member entry names a connection that has disconnected; hence
\* when every connection has disconnected the rooms table is empty.
C36_NoRoomOutlivesConnections ==
    /\ \A r \in DOMAIN rooms : \A i \in 1..Len(rooms[r].members) :
          connState[rooms[r].members[i].socketId] # "closed"
    /\ (\A c \in DOMAIN connState : connState[c] = "closed") => rooms = <<>>

\* Connection c is not in room r: it has no user there, is not subscribed
\* to it and does not record it (it never joined r, or has left it)
NotIn(c, r) ==
    /\ r \in DOMAIN rooms
    /\ c \notin DOMAIN rooms[r].socketToUser
    /\ r \notin subs[c]
    /\ currentRoomId[c] # r

\* C37: a leave_room naming a room the sender is not in changes nothing in
\* that room and causes no promoted_to_host and no members_update about it
\* to reach any connection.
C37_ForeignLeaveIsNoOp ==
    [][(ev'.type = "leave_room" /\ NotIn(ev'.conn, ev'.room_id)) =>
         /\ rooms' = rooms
         /\ \A i \in 1..Len(sent') :
              sent'[i].type \in {"promoted_to_host", "members_update"}
                 => sent'[i].to = {}]_vars

\* The playback fields of a room
Playback(room) ==
    <<room.currentSong, room.position, room.status, room.lastSync>>

\* C38: a join_room, leave_room or disconnect leaves currentSong, position,
\* status and lastSync of every room that exists before and after it
\* unchanged, so that the extrapolated current position is the same before
\* and after the event.
C38_MembershipKeepsPlayback ==
    [][ev'.type \in {"join_room", "leave_room", "disconnect"} =>
         \A r \in DOMAIN rooms \cap DOMAIN rooms' :
            /\ Playback(rooms'[r]) = Playback(rooms[r])
            /\ getCurrentPosition(rooms'[r], now') = getCurrentPosition(rooms[r], now)]_vars

\* The host left a playing room some time after the last write; the other
\* member was promoted and the room still plays from the stored clock
C38_Witness ==
    /\ Departure(ev)
    /\ ev.room_id \in DOMAIN rooms
    /\ Logged("left") # {}
    /\ Logged("new_host") # {}
    /\ rooms[ev.room_id].status = "playing"
    /\ rooms[ev.room_id].currentSong # Null
    /\ rooms[ev.room_id].position = MaxPos
    /\ rooms[ev.room_id].lastSync < now
    /\ getCurrentPosition(rooms[ev.room_id], now) > MaxPos * MsPerSec

\* C39: under a server clock that never decreases, over every step the
\* lastSync of a room that exists before and after the step does not
\* decrease, and the lastSync of every stored room is at most the server
\* clock, whatever server_time the clients send.
C39_LastSyncMonotone ==
    [][now' >= now =>
         \A r \in DOMAIN rooms' :
            /\ rooms'[r].lastSync <= now'
            /\ r \in DOMAIN rooms => rooms'[r].lastSync >= rooms[r].lastSync]_vars

\* A sync_position whose server_time is behind the server clock, on a room
\* created earlier: the room's lastSync is the server clock
C39_Witness ==
    /\ ev.type = "sync_position"
    /\ ev.room_id \in DOMAIN rooms
    /\ ev.server_time < now
    /\ rooms[ev.room_id].lastSync = now
    /\ rooms[ev.room_id].members[1].joinedAt < now
    /\ now = MaxTime

====
